---- MODULE Spec2Model ----
(***************************************************************************)
(* Model of src/pages/populations.tsx (GraphPage): the prefecture catalog, *)
(* the checkbox selection, the per-prefecture population requests with the *)
(* populationData value each request's callbacks closed over, and the      *)
(* chartData projection handed to the chart.                               *)
(*                                                                         *)
(* Every handler runs to completion on the one event loop and the render   *)
(* that follows a state update sees the state as that handler left it, so  *)
(* the effect pass of a checkbox change closes over the populationData     *)
(* current at the change.  requests[i].doneAt and changes record what has  *)
(* happened (when a promise settled, which change events were handled),   *)
(* catalogRequests counts the catalog requests issued; the component reads *)
(* none of them.                                                           *)
(***************************************************************************)
EXTENDS Integers, Sequences, FiniteSets, TLC

\* Number of checkbox change events explored.
MaxChanges == 3

\* Bodies the catalog endpoint may return in response.data.result.
CatalogResults ==
  { << [prefCode |-> 1, prefName |-> "Hokkaido"],
       [prefCode |-> 13, prefName |-> "Tokyo"] >>,
    << [prefCode |-> 13, prefName |-> "Tokyo"] >> }

\* chartData.labels
ChartLabels ==
  << 1960, 1965, 1970, 1975, 1980, 1985, 1990, 1995, 2000, 2005, 2010, 2015,
     2020 >>

\* Bodies the population endpoint may return in response.data.result.data:
\* one series with a point for each year of the axis, or two series, the
\* first with a single point.
SeriesResults ==
  { << [label |-> "total",
        data |-> [m \in 1..Len(ChartLabels) |->
                   [year |-> ChartLabels[m], value |-> 100 + m]]] >>,
    << [label |-> "total", data |-> << [year |-> 1960, value |-> 200] >>],
       [label |-> "young", data |-> << >>] >> }

VARIABLES
  prefectures,          \* useState<Prefecture[]>
  catalogRequest,       \* the promise of the catalog request
  catalogRequests,      \* the number of catalog requests issued
  selectedPrefectures,  \* useState<number[]>
  populationData,       \* useState<PopulationWithPref[]>
  requests,             \* every population request issued, with its closure
  changes               \* every checkbox change event handled, in order

vars == <<prefectures, catalogRequest, catalogRequests, selectedPrefectures,
          populationData, requests, changes>>

\* Array.prototype.includes
Includes(arr, x) == \E k \in DOMAIN arr : arr[k] = x

\* Array.prototype.filter with the predicate (prefCode) => prefCode !== value
RECURSIVE FilterNotEqual(_, _)
FilterNotEqual(arr, value) ==
  IF arr = << >> THEN << >>
  ELSE IF Head(arr) # value
       THEN << Head(arr) >> \o FilterNotEqual(Tail(arr), value)
       ELSE FilterNotEqual(Tail(arr), value)

\* Array.prototype.filter with the predicate (prefCode) => prefCode === value
RECURSIVE FilterEqual(_, _)
FilterEqual(arr, value) ==
  IF arr = << >> THEN << >>
  ELSE IF Head(arr) = value
       THEN << Head(arr) >> \o FilterEqual(Tail(arr), value)
       ELSE FilterEqual(Tail(arr), value)

\* handleCheckboxChange with the comparison of the filter inverted.
HandleCheckboxChangeKeepsValue(selected, value, checked) ==
  IF checked THEN Append(selected, value)
  ELSE FilterEqual(selected, value)

\* handleCheckboxChange inserting a checked code at the front.
HandleCheckboxChangePrepends(selected, value, checked) ==
  IF checked THEN << value >> \o selected
  ELSE FilterNotEqual(selected, value)

\* handleCheckboxChange: the next value of selectedPrefectures.
HandleCheckboxChange(selected, value, checked) ==
  IF checked THEN Append(selected, value)
  ELSE FilterNotEqual(selected, value)

\* One pending population request of a pass of the effect.
NewRequest(prefCode, closure, pass) ==
  [prefCode |-> prefCode, closure |-> closure, pass |-> pass,
   status |-> "pending", doneAt |-> 0]

\* The effect fetching only the codes no earlier request was issued for.
RECURSIVE FetchNewOnly(_, _, _, _)
FetchNewOnly(selected, closure, pass, issued) ==
  IF selected = << >> THEN << >>
  ELSE IF Head(selected) \in issued
       THEN FetchNewOnly(Tail(selected), closure, pass, issued)
       ELSE << NewRequest(Head(selected), closure, pass) >>
            \o FetchNewOnly(Tail(selected), closure, pass, issued)

SeriesFetchEffectIncremental(selected, closure, pass) ==
  FetchNewOnly(selected, closure, pass,
               { requests[i].prefCode : i \in DOMAIN requests })

\* The effect running its pass twice for one change.
SeriesFetchEffectTwice(selected, closure, pass) ==
  [k \in 1..Len(selected) |-> NewRequest(selected[k], closure, pass)]
  \o [k \in 1..Len(selected) |-> NewRequest(selected[k], closure, pass)]

\* The effect iterating over the catalog instead of the selection.
SeriesFetchEffectAllPrefectures(selected, closure, pass) ==
  [k \in 1..Len(prefectures) |->
     NewRequest(prefectures[k].prefCode, closure, pass)]

\* The effect on [selectedPrefectures]: the requests one pass issues.  The
\* callbacks of the pass close over the populationData of the render.
SeriesFetchEffect(selected, closure, pass) ==
  IF Len(selected) > 0
  THEN [k \in 1..Len(selected) |-> NewRequest(selected[k], closure, pass)]
  ELSE << >>

\* The success callback dropping the response of a deselected prefecture.
SeriesThenCancelled(closure, prefCode, result) ==
  IF Includes(selectedPrefectures, prefCode)
  THEN Append(closure, [population |-> result[1], prefCode |-> prefCode])
  ELSE populationData

\* The success callback storing the last series of the response.
SeriesThenLastPayload(closure, prefCode, result) ==
  Append(closure, [population |-> result[Len(result)], prefCode |-> prefCode])

\* The success callback appending to the current state, as the updater form
\* setPopulationData((current) => [...current, data]) does.
SeriesThenFunctional(closure, prefCode, result) ==
  Append(populationData, [population |-> result[1], prefCode |-> prefCode])

\* The success callback: the argument of setPopulationData.
SeriesThen(closure, prefCode, result) ==
  Append(closure, [population |-> result[1], prefCode |-> prefCode])

\* Array.prototype.find: the index of the first element with the prefCode,
\* 0 when there is none.
FindIndex(arr, prefCode) ==
  IF \E k \in DOMAIN arr : arr[k].prefCode = prefCode
  THEN CHOOSE k \in DOMAIN arr :
         /\ arr[k].prefCode = prefCode
         /\ \A m \in 1..(k - 1) : arr[m].prefCode # prefCode
  ELSE 0

\* Number.prototype.toString(16) of a non-negative integer.
HexDigit ==
  << "0", "1", "2", "3", "4", "5", "6", "7",
     "8", "9", "a", "b", "c", "d", "e", "f" >>

RECURSIVE ToString16(_)
ToString16(n) ==
  IF n < 16 THEN HexDigit[n + 1]
  ELSE ToString16(n \div 16) \o HexDigit[(n % 16) + 1]

\* IEEE 754 binary64 arithmetic on non-negative numbers.  A natural number
\* is a sequence of bits, least significant first, without leading zeros; a
\* double is [mant, exp] standing for mant * 2^exp, mant of at most 53 bits.
RECURSIVE ToBits(_)
ToBits(n) == IF n = 0 THEN << >> ELSE << n % 2 >> \o ToBits(n \div 2)

RECURSIVE FromBits(_)
FromBits(bits) ==
  IF bits = << >> THEN 0 ELSE Head(bits) + 2 * FromBits(Tail(bits))

RECURSIVE StripZeros(_)
StripZeros(bits) ==
  IF bits = << >> THEN << >>
  ELSE IF bits[Len(bits)] = 0
       THEN StripZeros(SubSeq(bits, 1, Len(bits) - 1))
       ELSE bits

\* Multiplication works on limbs of 10 bits, least significant first.
Limb == 1024

RECURSIVE ToLimbs(_)
ToLimbs(n) == IF n = 0 THEN << >> ELSE << n % Limb >> \o ToLimbs(n \div Limb)

Pow2 == << 1, 2, 4, 8, 16, 32, 64, 128, 256, 512 >>

BitAt(bits, k) == IF k \in DOMAIN bits THEN bits[k] ELSE 0

BitsToLimbs(bits) ==
  [q \in 1..((Len(bits) + 9) \div 10) |->
     LET b(j) == BitAt(bits, 10 * (q - 1) + j) * Pow2[j]
     IN b(1) + b(2) + b(3) + b(4) + b(5) + b(6) + b(7) + b(8) + b(9) + b(10)]

LimbsToBits(limbs) ==
  StripZeros([k \in 1..(10 * Len(limbs)) |->
                (limbs[((k - 1) \div 10) + 1] \div Pow2[((k - 1) % 10) + 1])
                  % 2])

\* The sum of a[i] * b[k - i + 1] over the limbs i..Len(a) of a.
RECURSIVE Column(_, _, _, _)
Column(a, b, k, i) ==
  IF i > Len(a) THEN 0
  ELSE (IF (k - i + 1) \in DOMAIN b THEN a[i] * b[k - i + 1] ELSE 0)
       + Column(a, b, k, i + 1)

RECURSIVE Carry(_, _)
Carry(columns, carry) ==
  IF columns = << >>
  THEN IF carry = 0 THEN << >> ELSE ToLimbs(carry)
  ELSE << (Head(columns) + carry) % Limb >>
       \o Carry(Tail(columns), (Head(columns) + carry) \div Limb)

\* The exact product of two natural numbers given as bits.
MulBits(x, y) ==
  IF x = << >> \/ y = << >> THEN << >>
  ELSE LET a == BitsToLimbs(x)
           b == BitsToLimbs(y)
       IN LimbsToBits(Carry([k \in 1..(Len(a) + Len(b) - 1) |->
                               Column(a, b, k, 1)], 0))

\* bits + 1
Increment(bits) ==
  IF \E k \in DOMAIN bits : bits[k] = 0
  THEN LET z == CHOOSE k \in DOMAIN bits :
                  bits[k] = 0 /\ \A m \in 1..(k - 1) : bits[m] = 1
       IN [k \in DOMAIN bits |->
             IF k < z THEN 0 ELSE IF k = z THEN 1 ELSE bits[k]]
  ELSE [k \in 1..(Len(bits) + 1) |-> IF k = Len(bits) + 1 THEN 1 ELSE 0]

\* The bits of a natural number discarding its low n bits.
DropLow(bits, n) ==
  IF n >= Len(bits) THEN << >> ELSE SubSeq(bits, n + 1, Len(bits))

\* Rounding of an exact mant * 2^exp to 53 significant bits, to nearest,
\* ties to even.
RoundDouble(mant, exp) ==
  IF Len(mant) <= 53 THEN [mant |-> mant, exp |-> exp]
  ELSE LET n == Len(mant) - 53
           kept == DropLow(mant, n)
           half == mant[n] = 1
           sticky == \E k \in 1..(n - 1) : mant[k] = 1
           up == half /\ (sticky \/ kept[1] = 1)
           rounded == IF up THEN Increment(kept) ELSE kept
       IN IF Len(rounded) > 53
          THEN [mant |-> DropLow(rounded, 1), exp |-> exp + n + 1]
          ELSE [mant |-> rounded, exp |-> exp + n]

\* The double of an integer below 2^31.
DoubleOfInt(n) == [mant |-> ToBits(n), exp |-> 0]

\* The bits of a sequence of hexadecimal digits, least significant first.
RECURSIVE HexToBits(_)
HexToBits(digits) ==
  IF digits = << >> THEN << >>
  ELSE LET d == Head(digits)
       IN << d % 2, (d \div 2) % 2, (d \div 4) % 2, d \div 8 >>
          \o HexToBits(Tail(digits))

\* The double of the literal 0.01: 0x1.47ae147ae147bp-7, that is
\* 0x147ae147ae147b * 2^-59.
Double001 ==
  [mant |-> StripZeros(HexToBits(
              << 11, 7, 4, 1, 14, 10, 7, 4, 1, 14, 10, 7, 4, 1 >>)),
   exp |-> 0 - 59]

\* x * y on doubles.
DoubleMul(x, y) == RoundDouble(MulBits(x.mant, y.mant), x.exp + y.exp)

\* Math.round of a non-negative double, as an integer.
MathRound(x) ==
  IF x.exp >= 0 THEN FromBits([k \in 1..x.exp |-> 0] \o x.mant)
  ELSE FromBits(DropLow(x.mant, 0 - x.exp))
       + (IF 0 - x.exp <= Len(x.mant) /\ x.mant[0 - x.exp] = 1 THEN 1 ELSE 0)

\* Math.floor of a non-negative double, as an integer.
MathFloor(x) ==
  IF x.exp >= 0 THEN FromBits([k \in 1..x.exp |-> 0] \o x.mant)
  ELSE FromBits(DropLow(x.mant, 0 - x.exp))

\* `#${Math.floor(prefCode * 0.01 * 16777215).toString(16)}`
BorderColorOf(prefCode) ==
  "#" \o ToString16(MathFloor(DoubleMul(DoubleMul(DoubleOfInt(prefCode),
                                                   Double001),
                                         DoubleOfInt(16777215))))

\* The prefCodes of the prefectures run from 1 to MaxPrefCode.
MaxPrefCode == 47

\* The border colors of the prefCodes, computed once.
BorderColors == [prefCode \in 0..MaxPrefCode |-> BorderColorOf(prefCode)]

\* borderColor of the dataset of prefCode
BorderColor(prefCode) == BorderColors[prefCode]

\* A dataset whose values are looked up by the year of each axis label, 0
\* where the series has no point for the year.
DatasetAligned(prefs, popData, prefCode) ==
  LET p == FindIndex(prefs, prefCode)
      d == FindIndex(popData, prefCode)
      prefName == IF p = 0 THEN "" ELSE prefs[p].prefName
      data == IF d = 0 THEN << >> ELSE popData[d].population.data
      ValueAt(year) ==
        IF \E m \in DOMAIN data : data[m].year = year
        THEN data[CHOOSE m \in DOMAIN data : data[m].year = year].value
        ELSE 0
  IN [label |-> prefName,
      data |-> [m \in 1..Len(ChartLabels) |-> ValueAt(ChartLabels[m])],
      borderColor |-> BorderColor(prefCode)]

\* One element of chartData.datasets.
Dataset(prefs, popData, prefCode) ==
  LET p == FindIndex(prefs, prefCode)
      d == FindIndex(popData, prefCode)
      prefName == IF p = 0 THEN "" ELSE prefs[p].prefName
      data == IF d = 0 THEN << >> ELSE popData[d].population.data
  IN [label |-> prefName,
      data |-> [m \in 1..Len(data) |-> data[m].value],
      borderColor |-> BorderColor(prefCode)]

\* chartData as a render computes it from the three pieces of state.
ChartDataOf(prefs, selected, popData) ==
  [labels |-> ChartLabels,
   datasets |-> [k \in 1..Len(selected) |->
                   Dataset(prefs, popData, selected[k])]]

ChartData == ChartDataOf(prefectures, selectedPrefectures, populationData)

Init ==
  /\ prefectures = << >>
  /\ catalogRequest = "pending"
  /\ catalogRequests = 1
  /\ selectedPrefectures = << >>
  /\ populationData = << >>
  /\ requests = << >>
  /\ changes = << >>

\* .then of the catalog request
CatalogThen ==
  /\ catalogRequest = "pending"
  /\ \E result \in CatalogResults : prefectures' = result
  /\ catalogRequest' = "ok"
  /\ UNCHANGED <<catalogRequests, selectedPrefectures, populationData,
                 requests, changes>>

\* .catch of the catalog request issuing the request again, up to three.
CatalogCatchRetries ==
  /\ catalogRequest = "pending"
  /\ IF catalogRequests < 3
     THEN catalogRequest' = "pending" /\ catalogRequests' = catalogRequests + 1
     ELSE catalogRequest' = "failed" /\ catalogRequests' = catalogRequests
  /\ UNCHANGED <<prefectures, selectedPrefectures, populationData, requests,
                 changes>>

\* .catch of the catalog request
CatalogCatch ==
  /\ catalogRequest = "pending"
  /\ catalogRequest' = "failed"
  /\ UNCHANGED <<prefectures, catalogRequests, selectedPrefectures,
                 populationData, requests, changes>>

\* Every prefCode a checkbox can carry.
AllCodes ==
  UNION { { result[k].prefCode : k \in DOMAIN result } :
          result \in CatalogResults }

\* Checkboxes rendered from a fixed list instead of the loaded catalog.
CheckboxValuesFixedList == AllCodes

\* The values of the rendered checkboxes.
CheckboxValues == { prefectures[k].prefCode : k \in DOMAIN prefectures }

\* A checkbox rendered without its checked attribute.
RenderedCheckedNever(value) == FALSE

\* checked={selectedPrefectures.includes(pref.prefCode)}
RenderedChecked(value) == Includes(selectedPrefectures, value)

\* A click on the controlled checkbox of value: the change event carries the
\* negation of the rendered checked attribute; the re-render runs the effect.
CheckboxChange(value) ==
  /\ Len(changes) < MaxChanges
  /\ value \in CheckboxValues
  /\ LET checked == ~RenderedChecked(value)
         selected == HandleCheckboxChange(selectedPrefectures, value, checked)
     IN /\ selectedPrefectures' = selected
        /\ requests' = requests \o
             SeriesFetchEffect(selected, populationData, Len(changes) + 1)
        /\ changes' = Append(changes, [value |-> value, checked |-> checked,
                                       selected |-> selected])
  /\ UNCHANGED <<prefectures, catalogRequest, catalogRequests, populationData>>

\* .then of population request i
SeriesFetchThen(i) ==
  /\ i \in DOMAIN requests
  /\ requests[i].status = "pending"
  /\ \E result \in SeriesResults :
       populationData' =
         SeriesThen(requests[i].closure, requests[i].prefCode, result)
  /\ requests' = [requests EXCEPT ![i].status = "ok",
                                  ![i].doneAt = Len(changes)]
  /\ UNCHANGED <<prefectures, catalogRequest, catalogRequests,
                 selectedPrefectures, changes>>

\* .catch of population request i resetting populationData to the value the
\* callback closed over.
SeriesFetchCatchClears(i) ==
  /\ i \in DOMAIN requests
  /\ requests[i].status = "pending"
  /\ requests' = [requests EXCEPT ![i].status = "failed",
                                  ![i].doneAt = Len(changes)]
  /\ populationData' = requests[i].closure
  /\ UNCHANGED <<prefectures, catalogRequest, catalogRequests,
                 selectedPrefectures, changes>>

\* .catch of population request i
SeriesFetchCatch(i) ==
  /\ i \in DOMAIN requests
  /\ requests[i].status = "pending"
  /\ requests' = [requests EXCEPT ![i].status = "failed",
                                  ![i].doneAt = Len(changes)]
  /\ UNCHANGED <<prefectures, catalogRequest, catalogRequests,
                 selectedPrefectures, populationData, changes>>

Next ==
  \/ CatalogThen
  \/ CatalogCatch
  \/ \E value \in CheckboxValues : CheckboxChange(value)
  \/ \E i \in DOMAIN requests : SeriesFetchThen(i)
  \/ \E i \in DOMAIN requests : SeriesFetchCatch(i)

Spec == Init /\ [][Next]_vars

----------------------------------------------------------------------------
\* Vocabulary of the properties.

\* Step predicates: the .then / .catch of request i runs in this step.
Completes(i) == requests[i].status = "pending" /\ requests'[i].status = "ok"
Fails(i) == requests[i].status = "pending" /\ requests'[i].status = "failed"

\* The indices of the requests issued for prefCode, and those that succeeded.
RequestsFor(prefCode) ==
  { i \in DOMAIN requests : requests[i].prefCode = prefCode }
OkRequestsFor(prefCode) ==
  { i \in RequestsFor(prefCode) : requests[i].status = "ok" }

\* The indices of the records of prefCode in an accumulated collection.
RecordsOf(popData, prefCode) ==
  { k \in DOMAIN popData : popData[k].prefCode = prefCode }

\* The prefCodes requested by pass p, in the order of issue.
RECURSIVE PassCodes(_, _)
PassCodes(reqs, p) ==
  IF reqs = << >> THEN << >>
  ELSE IF Head(reqs).pass = p
       THEN << Head(reqs).prefCode >> \o PassCodes(Tail(reqs), p)
       ELSE PassCodes(Tail(reqs), p)

\* The sum of the Selection sizes after each of the first n changes.
RECURSIVE SumSelected(_)
SumSelected(n) ==
  IF n = 0 THEN 0 ELSE SumSelected(n - 1) + Len(changes[n].selected)

\* The Selection before change p.
SelectedBefore(p) == IF p = 1 THEN << >> ELSE changes[p - 1].selected

\* C1: every successful completion leaves the accumulator equal to the
\* accumulator just before the completion with one record of the request's
\* prefCode added at the end.
C1_CompletionAppendsToCurrent ==
  [][\A i \in DOMAIN requests :
       Completes(i) =>
         /\ Len(populationData') = Len(populationData) + 1
         /\ SubSeq(populationData', 1, Len(populationData)) = populationData
         /\ populationData'[Len(populationData')].prefCode =
              requests[i].prefCode]_vars

\* C2 as stated: for every id at most one request is ever issued and at most
\* one record is stored.
C2_OneFetchPerId ==
  \A prefCode \in AllCodes :
    /\ Cardinality(RequestsFor(prefCode)) <= 1
    /\ Cardinality(RecordsOf(populationData, prefCode)) <= 1

\* C2 amended: for every id at most one request is issued per Selection
\* change, and only by a change whose resulting Selection holds the id; the
\* accumulator holds at most one record of the id per successful completion
\* of a request for it.
C2_OneFetchPerIdPerChange ==
  \A prefCode \in AllCodes :
    /\ \A i, j \in RequestsFor(prefCode) :
         requests[i].pass = requests[j].pass => i = j
    /\ \A i \in RequestsFor(prefCode) :
         /\ requests[i].pass \in DOMAIN changes
         /\ Includes(changes[requests[i].pass].selected, prefCode)
    /\ Cardinality(RecordsOf(populationData, prefCode))
         <= Cardinality(OkRequestsFor(prefCode))

\* An id toggled on again: two requests for it and two records of it.
C2_Witness ==
  \E prefCode \in AllCodes :
    /\ Cardinality(RequestsFor(prefCode)) = 2
    /\ Cardinality(RecordsOf(populationData, prefCode)) = 2
    /\ Len(changes) = 3
    /\ changes[2].value = prefCode /\ ~changes[2].checked
    /\ changes[3].value = prefCode /\ changes[3].checked

\* C3: the requests issued by the pass of each change are exactly the ids of
\* the Selection after that change, one each and in Selection order, whether
\* or not an earlier pass requested them; the number of requests issued is
\* the sum of the Selection sizes after each change.
C3_PassFetchesWholeSelection ==
  /\ \A p \in DOMAIN changes : PassCodes(requests, p) = changes[p].selected
  /\ \A i \in DOMAIN requests : requests[i].pass \in DOMAIN changes
  /\ Len(requests) = SumSelected(Len(changes))

\* A pass requests an id whose record an earlier pass already stored.
C3_Witness ==
  \E i, j \in DOMAIN requests :
    /\ requests[i].prefCode = requests[j].prefCode
    /\ requests[i].pass < requests[j].pass
    /\ requests[i].status = "ok"
    /\ RecordsOf(requests[j].closure, requests[j].prefCode) # {}

\* C4: when every issued request has completed successfully, every selected
\* id has a record in the accumulator.
C4_AllSelectedHaveRecord ==
  (\A i \in DOMAIN requests : requests[i].status = "ok") =>
    \A k \in DOMAIN selectedPrefectures :
      RecordsOf(populationData, selectedPrefectures[k]) # {}

\* C5: after check, uncheck, check of one id there are exactly two requests
\* for it and, once both succeeded, exactly two records of it, the chart
\* showing the first.
C5_CheckUncheckCheckTwoRecords ==
  ( /\ Len(changes) = 3
    /\ changes[1].checked /\ ~changes[2].checked /\ changes[3].checked
    /\ changes[2].value = changes[1].value
    /\ changes[3].value = changes[1].value ) =>
      /\ Len(requests) = 2
      /\ \A i \in DOMAIN requests : requests[i].prefCode = changes[1].value
      /\ (\A i \in DOMAIN requests : requests[i].status = "ok") =>
           /\ Cardinality(RecordsOf(populationData, changes[1].value)) = 2
           /\ ChartData.datasets[1].data =
                [m \in 1..Len(populationData[1].population.data) |->
                   populationData[1].population.data[m].value]

\* C6: no step takes a record out of the accumulator.
C6_RecordsNeverRemoved ==
  [][\A k \in DOMAIN populationData :
       \E m \in DOMAIN populationData' :
         populationData'[m] = populationData[k]]_vars

\* C7: a request whose id is no longer selected when it completes still puts
\* its record into the accumulator, and the completion leaves the Selection
\* as it was.
C7_NoCancellation ==
  [][\A i \in DOMAIN requests :
       (Completes(i) /\ ~Includes(selectedPrefectures, requests[i].prefCode))
         => /\ populationData' # << >>
            /\ populationData'[Len(populationData')].prefCode =
                 requests[i].prefCode
            /\ selectedPrefectures' = selectedPrefectures]_vars

\* A request completed after the change that unchecked its id; its record is
\* the last of the accumulator.
C7_Witness ==
  \E i \in DOMAIN requests :
    /\ requests[i].status = "ok"
    /\ requests[i].doneAt > requests[i].pass
    /\ ~Includes(changes[requests[i].doneAt].selected, requests[i].prefCode)
    /\ populationData # << >>
    /\ populationData[Len(populationData)].prefCode = requests[i].prefCode

\* The ids whose last change event checked them, in the order of those
\* events.
RECURSIVE CheckedInOrder(_)
CheckedInOrder(n) ==
  IF n = 0 THEN << >>
  ELSE IF /\ changes[n].checked
          /\ \A q \in (n + 1)..Len(changes) :
               changes[q].value # changes[n].value
       THEN Append(CheckedInOrder(n - 1), changes[n].value)
       ELSE CheckedInOrder(n - 1)

\* C8: the datasets correspond one-to-one and in order to the Selection,
\* which is the order in which the ids were checked: dataset k carries the
\* Catalog name of the k-th id checked and still selected.
C8_DatasetsInSelectionOrder ==
  /\ selectedPrefectures = CheckedInOrder(Len(changes))
  /\ Len(ChartData.datasets) = Len(selectedPrefectures)
  /\ \A k \in DOMAIN selectedPrefectures :
       \E j \in DOMAIN prefectures :
         /\ prefectures[j].prefCode = CheckedInOrder(Len(changes))[k]
         /\ prefectures[j].prefName = ChartData.datasets[k].label

\* 13 checked before 1 while the Catalog lists 1 before 13.
C8_Witness ==
  /\ selectedPrefectures = << 13, 1 >>
  /\ prefectures[1].prefCode = 1
  /\ ChartData.datasets[1].label = "Tokyo"
  /\ ChartData.datasets[2].label = "Hokkaido"

\* C9: a check of an id followed by the uncheck of the same id gives back the
\* Selection there was before the check; the requests of the check's pass are
\* still issued and each one still pending can still complete.
C9_CheckThenUncheckRestores ==
  \A p \in DOMAIN changes :
    ( /\ p + 1 \in DOMAIN changes
      /\ changes[p].checked /\ ~changes[p + 1].checked
      /\ changes[p + 1].value = changes[p].value ) =>
        /\ changes[p + 1].selected = SelectedBefore(p)
        /\ PassCodes(requests, p) = Append(SelectedBefore(p), changes[p].value)
        /\ \A i \in DOMAIN requests :
             (requests[i].pass = p /\ requests[i].status = "pending")
               => ENABLED SeriesFetchThen(i)

\* A check and uncheck on top of a non-empty Selection, a request of the check
\* delivered after the uncheck.
C9_Witness ==
  /\ Len(changes) = 3
  /\ changes[1].selected # << >>
  /\ changes[2].checked /\ ~changes[3].checked
  /\ changes[3].value = changes[2].value
  /\ selectedPrefectures = changes[1].selected
  /\ \E i \in DOMAIN requests :
       /\ requests[i].pass = 2
       /\ requests[i].prefCode = changes[2].value
       /\ requests[i].status = "ok"
       /\ requests[i].doneAt = 3

\* The data of the dataset of prefCode in a chartData value.
DataOf(prefs, popData, prefCode) == Dataset(prefs, popData, prefCode).data

\* C10 as stated: a failed request for a selected id leaves the accumulator
\* and the Selection unchanged and the dataset of the id has no values.
C10_FailureLeavesEmptySeries ==
  [][\A i \in DOMAIN requests :
       (Fails(i) /\ Includes(selectedPrefectures, requests[i].prefCode)) =>
         /\ populationData' = populationData
         /\ selectedPrefectures' = selectedPrefectures
         /\ DataOf(prefectures', populationData', requests[i].prefCode) = << >>]_vars

\* C10 amended: a failed request for a selected id leaves the accumulator,
\* the Selection and the derived chart data unchanged; the dataset of the id
\* has no values when no request for the id has completed successfully.
C10_FailureLeavesStateUnchanged ==
  [][\A i \in DOMAIN requests :
       (Fails(i) /\ Includes(selectedPrefectures, requests[i].prefCode)) =>
         /\ populationData' = populationData
         /\ selectedPrefectures' = selectedPrefectures
         /\ ChartDataOf(prefectures', selectedPrefectures', populationData')
              = ChartData
         /\ (OkRequestsFor(requests[i].prefCode) = {} =>
               DataOf(prefectures', populationData', requests[i].prefCode) = << >>)]_vars

\* A request failed while its id was selected and another id already had a
\* record; the dataset of the failed id is empty.
C10_Witness ==
  \E i \in DOMAIN requests :
    /\ requests[i].status = "failed"
    /\ Includes(selectedPrefectures, requests[i].prefCode)
    /\ requests[i].doneAt = Len(changes)
    /\ OkRequestsFor(requests[i].prefCode) = {}
    /\ populationData # << >>
    /\ \E k \in DOMAIN selectedPrefectures :
         /\ selectedPrefectures[k] = requests[i].prefCode
         /\ ChartData.datasets[k].data = << >>

\* C11: while the Selection is empty there are no datasets, and neither the
\* initial render nor a change that empties the Selection issues a request.
C11_EmptySelectionNoFetch ==
  /\ selectedPrefectures = << >> => ChartData.datasets = << >>
  /\ changes = << >> => requests = << >>
  /\ \A p \in DOMAIN changes :
       changes[p].selected = << >> =>
         \A i \in DOMAIN requests : requests[i].pass # p

\* The Selection emptied by an uncheck after a pass that did issue a request.
C11_Witness ==
  /\ Len(changes) = 2
  /\ changes[1].selected # << >>
  /\ changes[2].selected = << >>
  /\ selectedPrefectures = << >>
  /\ Len(requests) = 1
  /\ populationData # << >>

\* C12: the Selection holds only ids of the loaded Catalog; while the
\* Catalog is empty the Selection is empty and no request has been issued.
C12_SelectionWithinCatalog ==
  /\ \A k \in DOMAIN selectedPrefectures :
       \E j \in DOMAIN prefectures :
         prefectures[j].prefCode = selectedPrefectures[k]
  /\ \A i \in DOMAIN requests :
       \E j \in DOMAIN prefectures :
         prefectures[j].prefCode = requests[i].prefCode
  /\ prefectures = << >> =>
       (selectedPrefectures = << >> /\ requests = << >> /\ changes = << >>)

\* A Selection that is a proper part of the loaded Catalog.
C12_Witness ==
  /\ Len(prefectures) = 2
  /\ selectedPrefectures = << 13 >>
  /\ requests # << >>

\* C13: one catalog request is issued and no step issues another; once it
\* has succeeded the Catalog is the returned list and no step changes it,
\* once it has failed the Catalog is empty and stays empty.
C13_CatalogFetchedOnce ==
  [][/\ catalogRequests = 1 /\ catalogRequests' = 1
     /\ (catalogRequest = "pending" /\ catalogRequest' = "ok")
          => prefectures' \in CatalogResults
     /\ catalogRequest = "ok"
          => (catalogRequest' = "ok" /\ prefectures' = prefectures)
     /\ catalogRequest = "failed"
          => ( /\ catalogRequest' = "failed"
               /\ prefectures = << >> /\ prefectures' = << >> )
     /\ catalogRequest' = "failed" => prefectures' = << >>]_vars

\* The Catalog still the returned list after toggles, a completion and a
\* failure of population requests.
C13_Witness ==
  /\ catalogRequest = "ok"
  /\ prefectures \in CatalogResults
  /\ Len(changes) >= 2
  /\ \E i, j \in DOMAIN requests :
       requests[i].status = "ok" /\ requests[j].status = "failed"

\* The values of the points of a series, in point order.
ValuesOf(points) == [m \in 1..Len(points) |-> points[m].value]

\* C14: the first check on a loaded Catalog issues exactly one request, for
\* the checked id and closing over the empty accumulator; once it has
\* succeeded the one dataset has the Catalog name of the id as its label and
\* the values of the first series of the response, in point order.
C14_SingleCheckSingleRequest ==
  Len(changes) = 1 =>
    /\ changes[1].checked
    /\ Len(requests) = 1
    /\ requests[1].prefCode = changes[1].value
    /\ requests[1].closure = << >>
    /\ requests[1].status = "ok" =>
         /\ Len(ChartData.datasets) = 1
         /\ \E j \in DOMAIN prefectures :
              /\ prefectures[j].prefCode = changes[1].value
              /\ prefectures[j].prefName = ChartData.datasets[1].label
         /\ \E result \in SeriesResults :
              ChartData.datasets[1].data = ValuesOf(result[1].data)

\* 13 checked alone, its request answered with the 13-point series.
C14_Witness ==
  /\ Len(changes) = 1
  /\ changes[1].value = 13
  /\ requests[1].status = "ok"
  /\ ChartData.datasets[1].label = "Tokyo"
  /\ ChartData.datasets[1].data =
       << 101, 102, 103, 104, 105, 106, 107, 108, 109, 110, 111, 112, 113 >>

\* C15: the requests of a pass close over the accumulator current when the
\* pass is issued and keep that snapshot; a successful completion sets the
\* accumulator to the snapshot of its request with the new record appended,
\* so the records of the requests of the same pass that completed earlier
\* are in the result only as far as the snapshot held them.
C15_CompletionBuildsOnSnapshot ==
  [][/\ \A i \in DOMAIN requests' :
          IF i \in DOMAIN requests
          THEN requests'[i].closure = requests[i].closure
          ELSE requests'[i].closure = populationData
     /\ \A i \in DOMAIN requests :
          Completes(i) =>
            /\ Len(populationData') = Len(requests[i].closure) + 1
            /\ SubSeq(populationData', 1, Len(requests[i].closure))
                 = requests[i].closure
            /\ populationData'[Len(populationData')].prefCode
                 = requests[i].prefCode
            /\ \A j \in DOMAIN requests :
                 (j # i /\ requests[j].pass = requests[i].pass) =>
                   /\ requests[j].closure = requests[i].closure
                   /\ Cardinality(RecordsOf(populationData',
                                            requests[j].prefCode))
                        = Cardinality(RecordsOf(requests[i].closure,
                                                requests[j].prefCode))]_vars

\* Both requests of the second pass have succeeded and the accumulator holds
\* one record.
C15_Witness ==
  /\ Len(changes) = 2
  /\ Len(requests) = 3
  /\ requests[1].status = "pending"
  /\ requests[2].status = "ok" /\ requests[3].status = "ok"
  /\ requests[2].pass = 2 /\ requests[3].pass = 2
  /\ Len(populationData) = 1

\* C16 as stated: the values of every selected id have one entry for each of
\* the 13 years of the axis.
C16_ThirteenValues ==
  \A k \in DOMAIN selectedPrefectures :
    /\ Len(ChartLabels) = 13
    /\ Len(ChartData.datasets[k].data) = Len(ChartLabels)

\* C16 amended: the values of a selected id are the values of the points of
\* the first record stored for the id, one entry for each point in the
\* stored order, and no entry when no record is stored; the stored points
\* are the first series of a response as it was received.
C16_ValuesCopiedThrough ==
  \A k \in DOMAIN selectedPrefectures :
    LET recs == RecordsOf(populationData, selectedPrefectures[k])
        data == ChartData.datasets[k].data
    IN IF recs = {} THEN data = << >>
       ELSE LET first == CHOOSE r \in recs : \A q \in recs : r <= q
                points == populationData[first].population.data
            IN /\ Len(data) = Len(points)
               /\ \A m \in DOMAIN points : data[m] = points[m].value
               /\ \E result \in SeriesResults : points = result[1].data

\* One selected id with a stored series of a single point, another with no
\* record.
C16_Witness ==
  /\ Len(selectedPrefectures) = 2
  /\ Len(ChartData.datasets[1].data) = 1
  /\ ChartData.datasets[2].data = << >>
  /\ RecordsOf(populationData, selectedPrefectures[1]) # {}

\* C17: the Selection holds no id twice; a change event checks exactly when
\* the id is absent and then appends it at the end, unchecks exactly when it
\* is present and then removes it, keeping the others in order; unchecking
\* an absent id would leave the Selection as it is.
C17_SelectionHasNoDuplicates ==
  /\ \A k, m \in DOMAIN selectedPrefectures :
       selectedPrefectures[k] = selectedPrefectures[m] => k = m
  /\ \A p \in DOMAIN changes :
       LET before == SelectedBefore(p)
           present == \E k \in DOMAIN before : before[k] = changes[p].value
       IN /\ changes[p].checked = ~present
          /\ changes[p].checked =>
               changes[p].selected = Append(before, changes[p].value)
          /\ ~changes[p].checked =>
               /\ Len(changes[p].selected) = Len(before) - 1
               /\ \A k \in DOMAIN changes[p].selected :
                    changes[p].selected[k] # changes[p].value
               /\ \A k, m \in DOMAIN changes[p].selected :
                    k < m =>
                      \E a, b \in DOMAIN before :
                        /\ a < b
                        /\ before[a] = changes[p].selected[k]
                        /\ before[b] = changes[p].selected[m]
  /\ \A value \in AllCodes :
       (\A k \in DOMAIN selectedPrefectures : selectedPrefectures[k] # value)
         => HandleCheckboxChange(selectedPrefectures, value, FALSE)
              = selectedPrefectures

\* Two ids checked, then the first unchecked: the second is what remains.
C17_Witness ==
  /\ Len(changes) = 3
  /\ changes[1].checked /\ changes[2].checked /\ ~changes[3].checked
  /\ changes[3].value = changes[1].value
  /\ selectedPrefectures = << changes[2].value >>

\* The border colors of the prefCodes with floor(id * 16777215 / 100) in
\* integer arithmetic.
ExactColors ==
  [prefCode \in 0..MaxPrefCode |->
     "#" \o ToString16((prefCode * 16777215) \div 100)]

\* C18: the border color of a dataset is decided by its id alone, whatever
\* the Selection, the Catalog and the accumulator: it is "#" followed by the
\* hexadecimal digits, without padding and at most 6, of
\* floor(id * 16777215 / 100); so for every prefCode.
C18_BorderColorOfIdAlone ==
  /\ \A k \in DOMAIN selectedPrefectures :
       ChartData.datasets[k].borderColor = ExactColors[selectedPrefectures[k]]
  /\ \A prefCode \in 0..MaxPrefCode :
       /\ BorderColors[prefCode] = ExactColors[prefCode]
       /\ Len(BorderColors[prefCode]) <= 7
  /\ BorderColors[0] = "#0"
  /\ BorderColors[1] = "#28f5c"
  /\ BorderColors[13] = "#2147ad"
  /\ BorderColors[20] = "#333333"

\* 1 and 13 selected with records stored: five digits for 1, six for 13.
C18_Witness ==
  /\ Len(selectedPrefectures) = 2
  /\ populationData # << >>
  /\ \E k \in DOMAIN selectedPrefectures :
       /\ selectedPrefectures[k] = 1
       /\ ChartData.datasets[k].borderColor = "#28f5c"
  /\ \E k \in DOMAIN selectedPrefectures :
       /\ selectedPrefectures[k] = 13
       /\ ChartData.datasets[k].borderColor = "#2147ad"
====
